---- MODULE Spec2Model ----
(***************************************************************************)
(* Inventory coordination engine of savannah-commerce:                     *)
(*   apps/products/models.py  Product, StockReservation, StockMovement     *)
(*   apps/orders/services.py  InventoryService                             *)
(* The persistent store is the five variables stock, reserved, allocated,  *)
(* reservations and movements; they always hold the committed state.       *)
(***************************************************************************)
EXTENDS Integers, Sequences, FiniteSets, TLC

\* ------------------------------------------------------------- bounds
MaxStock == 2   \* largest stock_quantity a product is created with or adjusted to
MaxQty == 2     \* largest quantity of a demand passed to the engine
MaxLineQty == 1 \* largest quantity of an order line
MaxRes == 4     \* StockReservation rows kept
MaxMov == 2     \* StockMovement rows kept
MaxSweepMov == 4 \* StockMovement rows kept when the sweep interleaves
MaxLeaseMov == 3 \* StockMovement rows kept when confirm, fulfill and adjust interleave
MaxTime == 2    \* clock ticks

TTLs == {1}     \* expiration_minutes, in clock ticks

Products == {1, 2}
Orders == {1, 2}
Procs == {1, 2}

\* null of a nullable column (order_id, expires_at, reference_id)
Null == 0

VARIABLES
  track,         \* Product.track_inventory, per product id
  stock,         \* Product.stock_quantity
  reserved,      \* Product.reserved_quantity
  allocated,     \* Product.allocated_quantity
  reservations,  \* StockReservation rows in creation order (index = row id)
  movements,     \* StockMovement rows in commit order
  orderItems,    \* OrderItem rows of each order: a list of lines
  orderRow,      \* Order.status and Order.is_reservation_active of each order
  now,           \* timezone.now()
  lease,         \* redis lock "product_lock:<id>": the holding call, or Null
  rowLock,       \* select_for_update row lock of a product: the holder, or Null
  pc,            \* position of each concurrent reserve_stock_for_order call
  call,          \* locals of each concurrent reserve_stock_for_order call
  sweep,         \* locals of the running cleanup_expired_reservations task
  recount        \* locals of the running update_inventory_counts task

dbvars == <<stock, reserved, allocated, reservations, movements>>
concvars == <<lease, rowLock, pc, call, sweep, recount>>
vars == <<track, stock, reserved, allocated, reservations, movements,
          orderItems, orderRow, now, lease, rowLock, pc, call, sweep,
          recount>>

\* ------------------------------------------------------------ helpers
Max(a, b) == IF a >= b THEN a ELSE b

Qty == 1..MaxQty
Item == [product_id : Products, quantity : Qty]
DemandLists == UNION {[1..n -> Item] : n \in 0..2}
\* OrderItem.Meta.unique_together = [order, product]
LineLists == {s \in DemandLists :
                \A i, j \in 1..Len(s) : i # j => s[i].product_id # s[j].product_id}

\* OrderCreateSerializer.validate_items: an order has at least one line
OrderLines == {s \in LineLists :
                 Len(s) >= 1 /\ \A i \in 1..Len(s) : s[i].quantity <= MaxLineQty}

\* The committed store as one value.
DB == [stock |-> stock, reserved |-> reserved, allocated |-> allocated,
       reservations |-> reservations, movements |-> movements]

\* faulty variant: demands taken in the caller's order
Unsorted(items) == items

\* sorted(order_items, key=lambda x: x["product_id"]): a stable sort
InsertItem(s, x) ==
  LET k == Cardinality({j \in 1..Len(s) : s[j].product_id <= x.product_id})
  IN SubSeq(s, 1, k) \o <<x>> \o SubSeq(s, k + 1, Len(s))

RECURSIVE SortPrefix(_, _)
SortPrefix(items, n) ==
  IF n = 0 THEN <<>> ELSE InsertItem(SortPrefix(items, n - 1), items[n])

SortedItems(items) == SortPrefix(items, Len(items))

\* ------------------------------------------------- Product (models.py)
\* faulty variant: a column without the constraint
CheckNothing(v) == TRUE

\* PositiveIntegerField: the store rejects a write of a negative value
\* (IntegrityError from the column's CHECK (... >= 0) constraint).
CheckPositive(v) == v >= 0

\* faulty variant: holds of pending orders not subtracted
AvailableQuantityNoReserved(d, pr) ==
  Max(0, d.stock[pr] - d.allocated[pr])

AvailableQuantity(d, pr) ==
  Max(0, d.stock[pr] - d.reserved[pr] - d.allocated[pr])

\* faulty variant: holds not looked at
IsInStockIgnoringHolds(d, pr) == d.stock[pr] > 0

\* Product.is_in_stock
IsInStock(d, pr) == AvailableQuantity(d, pr) > 0

\* faulty variant: track_inventory ignored
CanReserveTracked(d, pr, q) == AvailableQuantity(d, pr) >= q

CanReserve(d, pr, q) ==
  IF ~track[pr] THEN TRUE ELSE AvailableQuantity(d, pr) >= q

NewReservation(pr, q, o, exp) ==
  [product |-> pr, quantity |-> q, order_id |-> o, expires_at |-> exp,
   is_active |-> TRUE]

\* Product.reserve_stock: [d: the store afterwards, ok: the return value]
ReserveStock(d, pr, q) ==
  IF ~track[pr] THEN [d |-> d, ok |-> TRUE]
  ELSE IF AvailableQuantity(d, pr) >= q
       THEN [d |-> [d EXCEPT !.reserved[pr] = @ + q,
                             !.reservations =
                                Append(@, NewReservation(pr, q, Null, Null))],
             ok |-> TRUE]
       ELSE [d |-> d, ok |-> FALSE]

\* Product.release_reservation: raised = the UPDATE violated the CHECK
ReleaseReservation(d, pr, q) ==
  IF ~track[pr] THEN [d |-> d, raised |-> FALSE]
  ELSE IF CheckPositive(d.reserved[pr] - q)
       THEN [d |-> [d EXCEPT !.reserved[pr] = @ - q], raised |-> FALSE]
       ELSE [d |-> d, raised |-> TRUE]

\* faulty variant: the quantity is added to allocated but stays reserved
AllocateStockKeepingReserved(d, pr, q) ==
  IF ~track[pr] THEN [d |-> d, ok |-> TRUE]
  ELSE IF d.reserved[pr] >= q
       THEN [d |-> [d EXCEPT !.allocated[pr] = @ + q], ok |-> TRUE]
       ELSE [d |-> d, ok |-> FALSE]

\* Product.allocate_stock
AllocateStock(d, pr, q) ==
  IF ~track[pr] THEN [d |-> d, ok |-> TRUE]
  ELSE IF d.reserved[pr] >= q
       THEN [d |-> [d EXCEPT !.reserved[pr] = @ - q,
                             !.allocated[pr] = @ + q],
             ok |-> TRUE]
       ELSE [d |-> d, ok |-> FALSE]

\* faulty variant: the store accepts a negative allocated_quantity
DeallocateStockUnchecked(d, pr, q) ==
  IF ~track[pr] THEN [d |-> d, raised |-> FALSE]
  ELSE [d |-> [d EXCEPT !.allocated[pr] = @ - q], raised |-> FALSE]

\* Product.deallocate_stock
DeallocateStock(d, pr, q) ==
  IF ~track[pr] THEN [d |-> d, raised |-> FALSE]
  ELSE IF CheckPositive(d.allocated[pr] - q)
       THEN [d |-> [d EXCEPT !.allocated[pr] = @ - q], raised |-> FALSE]
       ELSE [d |-> d, raised |-> TRUE]

\* faulty variant: release without the is_active test
ReleaseUnguarded(d, i, memActive) ==
  LET r == ReleaseReservation(d, d.reservations[i].product,
                              d.reservations[i].quantity)
  IN IF r.raised THEN [d |-> d, raised |-> TRUE, active |-> memActive]
     ELSE [d |-> [r.d EXCEPT !.reservations[i].is_active = FALSE],
           raised |-> FALSE, active |-> FALSE]

\* StockReservation.release on row i; memActive is self.is_active of the
\* in-memory object the caller holds (read when the caller ran its query),
\* active is that attribute after the call.
Release(d, i, memActive) ==
  IF memActive
  THEN LET r == ReleaseReservation(d, d.reservations[i].product,
                                   d.reservations[i].quantity)
       IN IF r.raised THEN [d |-> d, raised |-> TRUE, active |-> TRUE]
          ELSE [d |-> [r.d EXCEPT !.reservations[i].is_active = FALSE],
                raised |-> FALSE, active |-> FALSE]
  ELSE [d |-> d, raised |-> FALSE, active |-> FALSE]

\* ----------------------------------------- InventoryService (services.py)
\* _log_stock_movement: refresh_from_db, then one StockMovement row that
\* snapshots the product's counters.
LogStockMovement(d, pr, type, q, reason, ref) ==
  [d EXCEPT !.movements =
     Append(@, [product |-> pr, movement_type |-> type, quantity |-> q,
                reason |-> reason, reference_id |-> ref,
                stock_after |-> d.stock[pr],
                reserved_after |-> d.reserved[pr],
                allocated_after |-> d.allocated[pr]])]

\* for item in sorted_items: ... lock.acquire(blocking=True, timeout=30).
\* A call never gets a lease it already holds (each redis_lock.Lock is a
\* new owner), so the first repeated product id of the sorted list times out.
DupIndex(s) ==
  LET D == {i \in 1..Len(s) : \E j \in 1..(i - 1) : s[j].product_id = s[i].product_id}
  IN IF D = {} THEN 0 ELSE CHOOSE i \in D : \A j \in D : i <= j

\* faulty variant: no availability check before the writes
FirstFailingSkipped(d, s) == 0

\* first loop of the transaction: the first sorted demand that fails
\* can_reserve, or 0
FirstFailing(d, s) ==
  LET F == {i \in 1..Len(s) : ~CanReserve(d, s[i].product_id, s[i].quantity)}
  IN IF F = {} THEN 0 ELSE CHOOSE i \in F : \A j \in F : i <= j

\* second loop of the transaction, from demand i on. faultAt = i makes the
\* store raise before demand i is written (0: never; Len(s)+1: at commit).
\* n counts the in-memory reservations appended to the list `reservations`.
RECURSIVE WriteLoop(_, _, _, _, _, _)
WriteLoop(d, s, i, o, exp, faultAt) ==
  IF i = faultAt THEN [d |-> d, status |-> "fault", n |-> i - 1]
  ELSE IF i > Len(s) THEN [d |-> d, status |-> "ok", n |-> Len(s)]
  ELSE LET pr == s[i].product_id
           q == s[i].quantity
           r == ReserveStock(d, pr, q)
       IN IF r.ok
          THEN LET d1 == [r.d EXCEPT !.reservations =
                            Append(@, NewReservation(pr, q, o, exp))]
                   d2 == LogStockMovement(d1, pr, "RESERVE", q, "reserved", o)
               IN WriteLoop(d2, s, i + 1, o, exp, faultAt)
          ELSE [d |-> d, status |-> "insufficient", n |-> i - 1]

\* except Exception: for reservation in reservations: reservation.release().
\* The transaction is already rolled back: each release_reservation commits
\* on its own, then save(update_fields) finds no row and raises (caught).
RECURSIVE ExceptCleanup(_, _, _)
ExceptCleanup(d, created, i) ==
  IF i > Len(created) THEN d
  ELSE LET r == ReleaseReservation(d, created[i].product_id, created[i].quantity)
       IN ExceptCleanup(IF r.raised THEN d ELSE r.d, created, i + 1)

Result(d, op, o, pr, ok, outcome, avail, n) ==
  [d |-> d,
   ret |-> [op |-> op, order |-> o, product |-> pr, ok |-> ok,
            outcome |-> outcome, available |-> avail, n |-> n]]

\* reserve_stock_for_order run with no other call in progress
ReserveStockForOrder(d, items, o, exp, faultAt) ==
  LET s == SortedItems(items)
      dup == DupIndex(s)
      f == FirstFailing(d, s)
      w == WriteLoop(d, s, 1, o, exp, faultAt)
  IN IF dup # 0
     THEN Result(d, "reserve", o, s[dup].product_id, FALSE, "lock", 0, 0)
     ELSE IF f # 0
     THEN Result(d, "reserve", o, s[f].product_id, FALSE, "insufficient",
                 AvailableQuantity(d, s[f].product_id), 0)
     ELSE IF w.status = "ok"
     THEN Result(w.d, "reserve", o, Null, TRUE, "ok", 0, w.n)
     ELSE Result(ExceptCleanup(d, SubSeq(s, 1, w.n), 1), "reserve", o, Null,
                 FALSE, w.status, 0, w.n)

\* confirm_order_reservations: the loop over the queryset q0 (rows as read
\* when the loop started, newest first), working on store d
RECURSIVE ConfirmLoop(_, _, _, _)
ConfirmLoop(d, q0, o, i) ==
  IF i = 0 THEN [d |-> d, ok |-> TRUE]
  ELSE IF q0[i].order_id = o /\ q0[i].is_active
       THEN LET a == AllocateStock(d, q0[i].product, q0[i].quantity)
            IN IF a.ok
               THEN ConfirmLoop(
                      LogStockMovement(
                        [a.d EXCEPT !.reservations[i].is_active = FALSE],
                        q0[i].product, "ALLOCATE", q0[i].quantity,
                        "confirmed", o),
                      q0, o, i - 1)
               ELSE [d |-> d, ok |-> FALSE]
       ELSE ConfirmLoop(d, q0, o, i - 1)

\* faulty variant: what was allocated before the failing row is kept
ConfirmOrderReservationsPartial(d, o) ==
  LET r == ConfirmLoop(d, d.reservations, o, Len(d.reservations))
  IN IF r.ok THEN Result(r.d, "confirm", o, Null, TRUE, "ok", 0, 0)
     ELSE Result(r.d, "confirm", o, Null, FALSE, "error", 0, 0)

ConfirmOrderReservations(d, o) ==
  LET r == ConfirmLoop(d, d.reservations, o, Len(d.reservations))
  IN IF r.ok THEN Result(r.d, "confirm", o, Null, TRUE, "ok", 0, 0)
     ELSE Result(d, "confirm", o, Null, FALSE, "error", 0, 0)

\* cancel_order_reservations
RECURSIVE CancelLoop(_, _, _, _)
CancelLoop(d, q0, o, i) ==
  IF i = 0 THEN [d |-> d, ok |-> TRUE]
  ELSE IF q0[i].order_id = o /\ q0[i].is_active
       THEN LET r == Release(d, i, q0[i].is_active)
            IN IF r.raised THEN [d |-> d, ok |-> FALSE]
               ELSE CancelLoop(
                      LogStockMovement(r.d, q0[i].product, "RELEASE",
                                       q0[i].quantity, "cancelled", o),
                      q0, o, i - 1)
       ELSE CancelLoop(d, q0, o, i - 1)

CancelOrderReservations(d, o) ==
  LET r == CancelLoop(d, d.reservations, o, Len(d.reservations))
  IN IF r.ok THEN Result(r.d, "cancel", o, Null, TRUE, "ok", 0, 0)
     ELSE Result(d, "cancel", o, Null, FALSE, "error", 0, 0)

\* fulfill_order: the loop over order.items.all()
RECURSIVE FulfillLoop(_, _, _, _)
FulfillLoop(d, lines, o, i) ==
  IF i > Len(lines) THEN [d |-> d, ok |-> TRUE]
  ELSE LET pr == lines[i].product_id
           q == lines[i].quantity
           r == DeallocateStock(d, pr, q)
       IN IF r.raised \/ ~CheckPositive(r.d.stock[pr] - q)
          THEN [d |-> d, ok |-> FALSE]
          ELSE FulfillLoop(
                 LogStockMovement([r.d EXCEPT !.stock[pr] = @ - q],
                                  pr, "OUT", 0 - q, "fulfilled", o),
                 lines, o, i + 1)

FulfillOrder(d, lines, o) ==
  LET r == FulfillLoop(d, lines, o, 1)
  IN IF r.ok THEN Result(r.d, "fulfill", o, Null, TRUE, "ok", 0, 0)
     ELSE Result(d, "fulfill", o, Null, FALSE, "error", 0, 0)

\* faulty variant: the movement carries the new quantity, not the difference
AdjustStockToAbsolute(d, pr, newQuantity) ==
  IF CheckPositive(newQuantity)
  THEN Result(LogStockMovement([d EXCEPT !.stock[pr] = newQuantity], pr,
                               "ADJUSTMENT", newQuantity, "adjustment", Null),
              "adjust", Null, pr, TRUE, "ok", 0, 0)
  ELSE Result(d, "adjust", Null, pr, FALSE, "error", 0, 0)

\* adjust_stock
AdjustStockTo(d, pr, newQuantity) ==
  IF CheckPositive(newQuantity)
  THEN Result(LogStockMovement([d EXCEPT !.stock[pr] = newQuantity], pr,
                               "ADJUSTMENT", newQuantity - d.stock[pr],
                               "adjustment", Null),
              "adjust", Null, pr, TRUE, "ok", 0, 0)
  ELSE Result(d, "adjust", Null, pr, FALSE, "error", 0, 0)

\* cleanup_expired_reservations: filter(expires_at__lt=now, is_active=True)
Expired(r, t) == r.expires_at # Null /\ r.expires_at < t /\ r.is_active

\* one pass of the sweep's loop body on row i of the queryset q0: its own
\* transaction, rolled back and skipped when release raises
CleanupOne(d, q0, i) ==
  LET r == Release(d, i, q0[i].is_active)
  IN IF r.raised THEN [d |-> d, released |-> 0]
     ELSE [d |-> LogStockMovement(r.d, q0[i].product, "RELEASE",
                                  q0[i].quantity, "expired", q0[i].order_id),
           released |-> 1]

RECURSIVE CleanupLoop(_, _, _, _)
CleanupLoop(d, q0, t, i) ==
  IF i = 0 THEN [d |-> d, count |-> 0]
  ELSE IF Expired(q0[i], t)
       THEN LET c == CleanupOne(d, q0, i)
                rest == CleanupLoop(c.d, q0, t, i - 1)
            IN [d |-> rest.d, count |-> rest.count + c.released]
       ELSE CleanupLoop(d, q0, t, i - 1)

CleanupExpiredReservations(d, t) ==
  LET r == CleanupLoop(d, d.reservations, t, Len(d.reservations))
  IN Result(r.d, "cleanup", Null, Null, TRUE, "ok", 0, r.count)

\* ------------------------------------------------------------- state
Idle == [demands |-> <<>>, order |-> Null, i |-> 0, held |-> {}, n |-> 0,
         outcome |-> "none", product |-> Null, available |-> 0]

\* Order as created: status default 'draft', is_reservation_active False
Draft == [status |-> "draft", is_reservation_active |-> FALSE]

NoSweep == [rows |-> <<>>, i |-> 0, t |-> 0, count |-> 0, running |-> FALSE]

\* update_inventory_counts not running
NoRecount == [stage |-> "idle", i |-> 0, mem |-> <<>>, agg |-> 0, start |-> Null,
              ops |-> <<>>]

Init ==
  /\ track \in [Products -> BOOLEAN]
  /\ stock \in [Products -> 0..MaxStock]
  /\ reserved = [p \in Products |-> 0]
  /\ allocated = [p \in Products |-> 0]
  /\ reservations = <<>>
  /\ movements = <<>>
  /\ orderItems \in [Orders -> OrderLines]
  /\ orderRow = [o \in Orders |-> Draft]
  /\ now = 0
  /\ lease = [p \in Products |-> Null]
  /\ rowLock = [p \in Products |-> Null]
  /\ pc = [p \in Procs |-> "idle"]
  /\ call = [p \in Procs |-> Idle]
  /\ sweep = NoSweep
  /\ recount = NoRecount

\* the store after an engine call that ran alone
Install(d) ==
  /\ stock' = d.stock
  /\ reserved' = d.reserved
  /\ allocated' = d.allocated
  /\ reservations' = d.reservations
  /\ movements' = d.movements

Commit(r) ==
  /\ Len(r.d.reservations) <= MaxRes
  /\ Len(r.d.movements) <= MaxMov
  /\ Install(r.d)
  /\ UNCHANGED <<track, orderItems, orderRow, now, concvars>>

\* Order.reserve_stock builds the demand list from the order's lines
OrderDemands(o) == orderItems[o]

Reserve(o, ttl) ==
  Commit(ReserveStockForOrder(DB, OrderDemands(o), o, now + ttl, 0))

Confirm(o) == Commit(ConfirmOrderReservations(DB, o))

Cancel(o) == Commit(CancelOrderReservations(DB, o))

Fulfill(o) == Commit(FulfillOrder(DB, orderItems[o], o))

Adjust(pr, newQuantity) == Commit(AdjustStockTo(DB, pr, newQuantity))

Cleanup == Commit(CleanupExpiredReservations(DB, now))

Tick ==
  /\ now < MaxTime
  /\ now' = now + 1
  /\ UNCHANGED <<track, dbvars, orderItems, orderRow, concvars>>

Next ==
  \/ \E o \in Orders, ttl \in TTLs : Reserve(o, ttl)
  \/ \E o \in Orders : Confirm(o)
  \/ \E o \in Orders : Cancel(o)
  \/ \E o \in Orders : Fulfill(o)
  \/ \E pr \in Products, newQuantity \in -1..MaxStock : Adjust(pr, newQuantity)
  \/ Cleanup
  \/ Tick

Spec == Init /\ [][Next]_vars

\* ------------------------------------------------------------ claims
Tracked == {pr \in Products : track[pr]}

RECURSIVE ActiveQuantity(_, _, _)
\* total quantity of the active reservations of pr among rows 1..i of rs
ActiveQuantity(rs, pr, i) ==
  IF i = 0 THEN 0
  ELSE ActiveQuantity(rs, pr, i - 1)
       + (IF rs[i].product = pr /\ rs[i].is_active THEN rs[i].quantity ELSE 0)

CountReleases(ms) ==
  Cardinality({k \in 1..Len(ms) : ms[k].movement_type = "RELEASE"})

NoOversell == \A pr \in Tracked : reserved[pr] + allocated[pr] <= stock[pr]

\* the step is an adjust_stock that set pr's stock below its outstanding holds
LoweringAdjust ==
  /\ Len(movements') = Len(movements) + 1
  /\ LET m == movements'[Len(movements')]
     IN /\ m.movement_type = "ADJUSTMENT"
        /\ m.stock_after < m.reserved_after + m.allocated_after

JointAB(items) ==
  /\ Len(items) = 2
  /\ items[1].product_id # items[2].product_id
  /\ LET s == SortedItems(items)
     IN /\ CanReserve(DB, s[1].product_id, s[1].quantity)
        /\ ~CanReserve(DB, s[2].product_id, s[2].quantity)

\* C3: a joint reservation for {A, B} with A (first in sort order)
\* sufficient and B insufficient fails with InsufficientStock and leaves the
\* store as it was: no reservation row, no RESERVE movement, every
\* reserved_quantity unchanged.
C3_AllOrNothing ==
  \A o \in Orders, items \in DemandLists :
    JointAB(items) =>
      LET r == ReserveStockForOrder(DB, items, o, now + 1, 0)
      IN /\ r.ret.outcome = "insufficient"
         /\ r.d.reservations = reservations
         /\ r.d.movements = movements
         /\ r.d.reserved = reserved

\* A is tracked and has stock of its own to lose; B is short because of
\* holds taken by earlier calls.
C3_Witness ==
  \E items \in DemandLists :
    /\ JointAB(items)
    /\ LET s == SortedItems(items)
       IN /\ track[s[1].product_id]
          /\ reserved[s[2].product_id] > 0
          /\ items[1].product_id > items[2].product_id

\* what a movement of each type does to the counters [stock, reserved,
\* allocated] when its signed quantity is applied
ApplyMovement(c, m) ==
  CASE m.movement_type = "RESERVE" ->
         [c EXCEPT !.reserved = @ + m.quantity]
    [] m.movement_type = "RELEASE" ->
         [c EXCEPT !.reserved = @ - m.quantity]
    [] m.movement_type = "ALLOCATE" ->
         [c EXCEPT !.reserved = @ - m.quantity, !.allocated = @ + m.quantity]
    [] m.movement_type = "OUT" ->
         [c EXCEPT !.stock = @ + m.quantity, !.allocated = @ + m.quantity]
    [] OTHER ->
         [c EXCEPT !.stock = @ + m.quantity]

RECURSIVE Replay(_, _)
\* the counters of product pr after replaying movements 1..k from zero
Replay(pr, k) ==
  IF k = 0 THEN [stock |-> 0, reserved |-> 0, allocated |-> 0]
  ELSE IF movements[k].product = pr
       THEN ApplyMovement(Replay(pr, k - 1), movements[k])
       ELSE Replay(pr, k - 1)

LastMovementOf(pr) ==
  LET K == {k \in 1..Len(movements) : movements[k].product = pr}
  IN CHOOSE k \in K : \A j \in K : j <= k

\* C4: replaying a product's movements in commit order from zero counters
\* reproduces the stock_after / reserved_after / allocated_after of its last
\* movement, and so its current counters.
C4_LedgerReplay ==
  \A pr \in Products :
    (\E k \in 1..Len(movements) : movements[k].product = pr) =>
      LET m == movements[LastMovementOf(pr)]
          c == Replay(pr, Len(movements))
      IN /\ c.stock = m.stock_after
         /\ c.reserved = m.reserved_after
         /\ c.allocated = m.allocated_after
         /\ c.stock = stock[pr]
         /\ c.reserved = reserved[pr]
         /\ c.allocated = allocated[pr]

ActiveOf(o) == {i \in 1..Len(reservations) :
                  reservations[i].order_id = o /\ reservations[i].is_active}

\* C5: the first release of a reservation takes its quantity out of
\* reserved_quantity once and is logged as one RELEASE movement; releasing
\* again (release() on the same object, a second cancel of the order, a
\* second sweep) changes nothing and reports no error, also for an order
\* with no active reservation.
C5_IdempotentRelease ==
  /\ \A i \in 1..Len(reservations) :
       LET r1 == Release(DB, i, reservations[i].is_active)
           r2 == Release(r1.d, i, r1.active)
       IN ~r1.raised =>
            /\ ~r2.raised /\ r2.d = r1.d
            /\ reservations[i].is_active /\ track[reservations[i].product] =>
                 r1.d.reserved[reservations[i].product] =
                   reserved[reservations[i].product] - reservations[i].quantity
  /\ \A o \in Orders :
       LET c1 == CancelOrderReservations(DB, o)
           c2 == CancelOrderReservations(c1.d, o)
       IN /\ c1.ret.ok
          /\ CountReleases(c1.d.movements) =
               CountReleases(movements) + Cardinality(ActiveOf(o))
          /\ c2.ret.ok /\ c2.d = c1.d
          /\ ActiveOf(o) = {} => c1.d = DB
  /\ LET s1 == CleanupExpiredReservations(DB, now)
         s2 == CleanupExpiredReservations(s1.d, now)
     IN /\ CountReleases(s1.d.movements) =
             CountReleases(movements) + s1.ret.n
        /\ s2.ret.n = 0 /\ s2.d = s1.d

\* an order whose reservation was released (cancelled or swept) and logged
C5_Witness ==
  \E o \in Orders, i \in 1..Len(reservations), k \in 1..Len(movements) :
    /\ reservations[i].order_id = o
    /\ ~reservations[i].is_active
    /\ track[reservations[i].product]
    /\ movements[k].movement_type = "RELEASE"
    /\ movements[k].reference_id = o
    /\ ActiveOf(o) = {}

\* C10: for each tracked product reserved_quantity is the total quantity of
\* its active reservations, and each hold of an order is one active
\* reservation tied to the order id.
C10_ReservationAccounting ==
  \A pr \in Tracked :
    reserved[pr] = ActiveQuantity(reservations, pr, Len(reservations))

\* ------------------------------------------- concurrent reserve calls
\* Each process p runs one reserve_stock_for_order call for order p. The
\* transaction works on the committed rows it has locked; its writes are
\* installed at commit.
Sorted(p) == SortedItems(call[p].demands)

\* faulty variant: leases kept on the error paths
LocksAfterCallOnSuccess(ls, p, held, outcome) ==
  IF outcome = "ok"
  THEN [pr \in Products |-> IF pr \in held /\ ls[pr] = p THEN Null ELSE ls[pr]]
  ELSE ls

\* finally: for lock in product_locks.values(): lock.release()
LocksAfterCall(ls, p, held, outcome) ==
  [pr \in Products |-> IF pr \in held /\ ls[pr] = p THEN Null ELSE ls[pr]]

\* end of transaction.atomic(): the row locks of p are dropped
RowLocksReleased(rl, p) ==
  [pr \in Products |-> IF rl[pr] = p THEN Null ELSE rl[pr]]

\* calls are numbered in the order they start
Start(p, items) ==
  /\ pc[p] = "idle"
  /\ \A q \in Procs : q < p => pc[q] # "idle"
  /\ call' = [call EXCEPT ![p] = [Idle EXCEPT !.demands = items, !.order = p,
                                              !.i = 1]]
  /\ pc' = [pc EXCEPT ![p] = IF items = <<>> THEN "write" ELSE "acquire"]
  /\ UNCHANGED <<track, dbvars, orderItems, orderRow, now, lease, rowLock, sweep, recount>>

\* lock.acquire(blocking=True, timeout=30) returned True
Acquire(p) ==
  /\ pc[p] = "acquire"
  /\ LET s == Sorted(p)
         i == call[p].i
         pr == s[i].product_id
     IN /\ lease[pr] = Null
        /\ lease' = [lease EXCEPT ![pr] = p]
        /\ call' = [call EXCEPT ![p].held = @ \cup {pr},
                                ![p].i = IF i = Len(s) THEN 1 ELSE i + 1]
        /\ pc' = [pc EXCEPT ![p] = IF i = Len(s) THEN "check" ELSE "acquire"]
  /\ UNCHANGED <<track, dbvars, orderItems, orderRow, now, rowLock, sweep, recount>>

\* lock.acquire returned False after 30 s: the lease is still held
AcquireTimeout(p) ==
  /\ pc[p] = "acquire"
  /\ LET pr == Sorted(p)[call[p].i].product_id
     IN /\ lease[pr] # Null
        /\ call' = [call EXCEPT ![p].outcome = "lock", ![p].product = pr]
  /\ pc' = [pc EXCEPT ![p] = "except"]
  /\ UNCHANGED <<track, dbvars, orderItems, orderRow, now, lease, rowLock, sweep, recount>>

\* faulty variant: the first loop reads the row without locking it
CheckRowUnlocked(p) ==
  /\ pc[p] = "check"
  /\ LET s == Sorted(p)
         i == call[p].i
         pr == s[i].product_id
     IN IF CanReserve(DB, pr, s[i].quantity)
        THEN /\ call' = [call EXCEPT ![p].i = IF i = Len(s) THEN 1 ELSE i + 1]
             /\ pc' = [pc EXCEPT ![p] = IF i = Len(s) THEN "write" ELSE "check"]
        ELSE /\ call' = [call EXCEPT ![p].outcome = "insufficient",
                                     ![p].product = pr,
                                     ![p].available = AvailableQuantity(DB, pr)]
             /\ pc' = [pc EXCEPT ![p] = "except"]
  /\ UNCHANGED <<track, dbvars, orderItems, orderRow, now, lease, rowLock, sweep, recount>>

\* first loop: select_for_update().get(id), then can_reserve
CheckRow(p) ==
  /\ pc[p] = "check"
  /\ LET s == Sorted(p)
         i == call[p].i
         pr == s[i].product_id
     IN /\ rowLock[pr] \in {Null, p}
        /\ IF CanReserve(DB, pr, s[i].quantity)
           THEN /\ rowLock' = [rowLock EXCEPT ![pr] = p]
                /\ call' = [call EXCEPT ![p].i = IF i = Len(s) THEN 1 ELSE i + 1]
                /\ pc' = [pc EXCEPT ![p] = IF i = Len(s) THEN "write" ELSE "check"]
           ELSE /\ rowLock' = RowLocksReleased(rowLock, p)
                /\ call' = [call EXCEPT ![p].outcome = "insufficient",
                                        ![p].product = pr,
                                        ![p].available = AvailableQuantity(DB, pr)]
                /\ pc' = [pc EXCEPT ![p] = "except"]
  /\ UNCHANGED <<track, dbvars, orderItems, orderRow, now, lease, sweep, recount>>

\* second loop and the end of the transaction: commit, or roll back when
\* reserve_stock returned False or the store raised
Write(p, ttl, faultAt) ==
  /\ pc[p] = "write"
  /\ LET w == WriteLoop(DB, Sorted(p), 1, call[p].order, now + ttl, faultAt)
         d == IF w.status = "ok" THEN w.d ELSE DB
     IN /\ Install(d)
        /\ call' = [call EXCEPT ![p].outcome = w.status, ![p].n = w.n]
        /\ pc' = [pc EXCEPT ![p] = IF w.status = "ok" THEN "finally" ELSE "except"]
  /\ rowLock' = RowLocksReleased(rowLock, p)
  /\ UNCHANGED <<track, orderItems, orderRow, now, lease, sweep, recount>>

\* except Exception: release the reservations created before the error
Except(p) ==
  /\ pc[p] = "except"
  /\ LET created == SubSeq(Sorted(p), 1, call[p].n)
         d == ExceptCleanup(DB, created, 1)
     IN /\ \A k \in 1..Len(created) : rowLock[created[k].product_id] = Null
        /\ Install(d)
  /\ pc' = [pc EXCEPT ![p] = "finally"]
  /\ UNCHANGED <<track, orderItems, orderRow, now, lease, rowLock, call, sweep, recount>>

Finally(p) ==
  /\ pc[p] = "finally"
  /\ lease' = LocksAfterCall(lease, p, call[p].held, call[p].outcome)
  /\ pc' = [pc EXCEPT ![p] = "done"]
  /\ UNCHANGED <<track, dbvars, orderItems, orderRow, now, rowLock, call, sweep, recount>>

InitConc ==
  /\ Init
  /\ \A pr \in Products : track[pr] /\ stock[pr] >= 1
  /\ \A o \in Orders : orderItems[o] = <<[product_id |-> 1, quantity |-> 1]>>

NextConc ==
  \/ \E p \in Procs, items \in DemandLists : Start(p, items)
  \/ \E p \in Procs : Acquire(p)
  \/ \E p \in Procs : AcquireTimeout(p)
  \/ \E p \in Procs : CheckRow(p)
  \/ \E p \in Procs, ttl \in TTLs :
       \E faultAt \in 0..(Len(call[p].demands) + 1) : Write(p, ttl, faultAt)
  \/ \E p \in Procs : Except(p)
  \/ \E p \in Procs : Finally(p)

SpecConc == InitConc /\ [][NextConc]_vars

\* ------------------------------------- claims on concurrent reserve calls
Started(p) == pc[p] # "idle"

Names(p, pr) == \E k \in 1..Len(call[p].demands) : call[p].demands[k].product_id = pr

\* C1: whatever the interleaving of concurrent reserve_stock_for_order
\* calls, no tracked product ever has reserved_quantity +
\* allocated_quantity above stock_quantity.
C1_NoOversell ==
  \A pr \in Products :
    track[pr] => stock[pr] - reserved[pr] - allocated[pr] >= 0

\* two calls competed for the last units of a product: one got them
C1_Witness ==
  \E pr \in Products, p, q \in Procs :
    /\ p # q /\ track[pr]
    /\ Names(p, pr) /\ Names(q, pr)
    /\ pc[p] = "done" /\ call[p].outcome = "ok"
    /\ pc[q] = "done" /\ call[q].outcome = "insufficient" /\ call[q].product = pr
    /\ reserved[pr] = stock[pr]

\* call p is blocked in lock.acquire on a lease that call q holds
WaitsFor(p, q) ==
  /\ pc[p] = "acquire"
  /\ lease[Sorted(p)[call[p].i].product_id] = q

\* C6: two concurrent multi-product calls never wait for each other's
\* leases, whatever order their demand lists name the products in.
C6_NoCircularWait ==
  \A p, q \in Procs : p # q => ~(WaitsFor(p, q) /\ WaitsFor(q, p))

\* p listed <<A, B>>, q listed <<B, A>>, and p waits for a lease q holds
C6_Witness ==
  \E p, q \in Procs :
    /\ p # q
    /\ Len(call[p].demands) = 2 /\ Len(call[q].demands) = 2
    /\ call[p].demands[1].product_id # call[p].demands[2].product_id
    /\ call[p].demands[1].product_id = call[q].demands[2].product_id
    /\ call[p].demands[2].product_id = call[q].demands[1].product_id
    /\ WaitsFor(p, q)
    /\ call[q].held # {}

\* both calls ask for one and the same tracked product; each quantity fits
\* what was available before either ran, the two together do not
Contend(p, q, pr) ==
  /\ p # q /\ track[pr]
  /\ Len(call[p].demands) = 1 /\ call[p].demands[1].product_id = pr
  /\ Len(call[q].demands) = 1 /\ call[q].demands[1].product_id = pr
  /\ LET before == stock[pr] - allocated[pr]
     IN /\ call[p].demands[1].quantity <= before
        /\ call[q].demands[1].quantity <= before
        /\ call[p].demands[1].quantity + call[q].demands[1].quantity > before

Finished(p) == pc[p] = "done" /\ call[p].outcome \in {"ok", "insufficient"}

\* C7: of two such concurrent calls (both past lock acquisition, the store
\* up) exactly one succeeds, and the other fails with InsufficientStock
\* reporting the availability left by the winner.
C7_LoserSeesRemainder ==
  \A p, q \in Procs, pr \in Products :
    Contend(p, q, pr) /\ Finished(p) /\ Finished(q) =>
      \E w, l \in {p, q} :
        /\ w # l
        /\ call[w].outcome = "ok"
        /\ call[l].outcome = "insufficient"
        /\ call[l].product = pr
        /\ call[l].available =
             stock[pr] - allocated[pr] - call[w].demands[1].quantity

C7_Witness ==
  \E p, q \in Procs, pr \in Products :
    /\ Contend(p, q, pr) /\ Finished(p) /\ Finished(q)
    /\ call[p].outcome = "ok"
    /\ call[q].outcome = "insufficient"
    /\ call[q].available > 0
    /\ call[q].available < stock[pr]

\* C9: when reserve_stock_for_order has returned or raised, the call holds
\* none of the leases it acquired, on every exit path.
C9_NoLeakedLeases ==
  \A p \in Procs : pc[p] = "done" => \A pr \in Products : lease[pr] # p

\* one call got its first lease, timed out on the second and is back; the
\* other failed inside the transaction with its leases held and is back
C9_Witness ==
  \E p, q \in Procs :
    /\ pc[p] = "done" /\ call[p].outcome = "lock" /\ call[p].held # {}
    /\ pc[q] = "done" /\ call[q].outcome = "fault" /\ call[q].held # {}

\* ------------------------- the sweep interleaved with confirm and cancel
\* cleanup_expired_reservations evaluates its queryset once, then releases
\* each row in a transaction of its own; other engine calls commit between.
NextExpired(rows, t, i) ==
  LET E == {j \in 1..i : Expired(rows[j], t)}
  IN IF E = {} THEN 0 ELSE CHOOSE j \in E : \A k \in E : k <= j

SweepQuery ==
  /\ ~sweep.running
  /\ sweep' = [rows |-> reservations, i |-> Len(reservations), t |-> now,
               count |-> 0, running |-> TRUE]
  /\ UNCHANGED <<track, dbvars, orderItems, orderRow, now, lease, rowLock, pc, call, recount>>

\* one pass of the loop; the task returns when no row is left
SweepRelease ==
  /\ sweep.running
  /\ LET j == NextExpired(sweep.rows, sweep.t, sweep.i)
         c == CleanupOne(DB, sweep.rows, j)
     IN IF j = 0
        THEN /\ sweep' = NoSweep
             /\ UNCHANGED dbvars
        ELSE /\ Len(c.d.movements) <= MaxSweepMov
             /\ Install(c.d)
             /\ sweep' = [sweep EXCEPT !.i = j - 1, !.count = @ + c.released]
  /\ UNCHANGED <<track, orderItems, orderRow, now, lease, rowLock, pc, call, recount>>

\* an engine call that runs to its end while the sweep is between rows
Between(r) ==
  /\ Len(r.d.reservations) <= MaxRes
  /\ Len(r.d.movements) <= MaxSweepMov
  /\ Install(r.d)
  /\ UNCHANGED <<track, orderItems, orderRow, now, lease, rowLock, pc, call, sweep, recount>>

SweepReserve(o, ttl) ==
  Between(ReserveStockForOrder(DB, OrderDemands(o), o, now + ttl, 0))

SweepConfirm(o) == Between(ConfirmOrderReservations(DB, o))

SweepCancel(o) == Between(CancelOrderReservations(DB, o))

SweepTick ==
  /\ now < MaxTime
  /\ now' = now + 1
  /\ UNCHANGED <<track, dbvars, orderItems, orderRow, concvars>>

InitSweep ==
  /\ Init
  /\ \A pr \in Products : track[pr] /\ stock[pr] = MaxStock
  /\ \A o \in Orders : Len(orderItems[o]) = 1

NextSweep ==
  \/ \E o \in Orders, ttl \in TTLs : SweepReserve(o, ttl)
  \/ \E o \in Orders : SweepConfirm(o)
  \/ \E o \in Orders : SweepCancel(o)
  \/ SweepTick
  \/ SweepQuery
  \/ SweepRelease

SpecSweep == InitSweep /\ [][NextSweep]_vars

RECURSIVE OrderQuantity(_, _, _)
\* total quantity of the active reservations of pr made for an order
OrderQuantity(rs, pr, i) ==
  IF i = 0 THEN 0
  ELSE OrderQuantity(rs, pr, i - 1)
       + (IF rs[i].product = pr /\ rs[i].is_active /\ rs[i].order_id # Null
          THEN rs[i].quantity ELSE 0)

\* C8: however the sweep interleaves with confirm and cancel, the quantity
\* of a reservation leaves reserved_quantity exactly once: what is still
\* reserved is what the orders' active reservations hold.
C8_ReleasedOnce ==
  \A pr \in Tracked :
    reserved[pr] = OrderQuantity(reservations, pr, Len(reservations))

\* ----------------------------------------------- claims C11 .. C20
\* a step of call p that leaves the transaction on an error after n > 0
\* reservations were created, or that runs the except block after it
ErrorExit(p) ==
  /\ call'[p].n > 0
  /\ \/ pc[p] = "write" /\ pc'[p] = "except"
     \/ pc[p] = "except" /\ pc'[p] = "finally"

\* C11: when reserve_stock_for_order raises after some reservations were
\* created and before commit, nothing of the call persists: every
\* reserved_quantity is what it was before the call, and no reservation or
\* RESERVE movement of the call remains.
C11_NothingPersists ==
  [][\A p \in Procs :
       ErrorExit(p) => /\ reserved' = reserved
                       /\ reservations' = reservations
                       /\ movements' = movements]_vars

\* confirm, fulfill and adjust running beside reserve_stock_for_order calls:
\* none of them takes a lease; each is one transaction that needs the row
\* locks of the products it writes.
RowsFree(prs) == \A pr \in prs : rowLock[pr] = Null

Beside(r, prs) ==
  /\ RowsFree(prs)
  /\ r.d # DB
  /\ Len(r.d.movements) <= MaxLeaseMov
  /\ Install(r.d)
  /\ UNCHANGED <<track, orderItems, orderRow, now, concvars>>

LeaseConfirm(o) ==
  Beside(ConfirmOrderReservations(DB, o),
         {reservations[i].product : i \in ActiveOf(o)})

LeaseFulfill(o) ==
  Beside(FulfillOrder(DB, orderItems[o], o),
         {orderItems[o][k].product_id : k \in 1..Len(orderItems[o])})

LeaseAdjust(pr, newQuantity) ==
  Beside(AdjustStockTo(DB, pr, newQuantity), {pr})

InitLease ==
  /\ Init
  /\ \A pr \in Products : track[pr] /\ stock[pr] = MaxStock
  /\ \A o \in Orders : Len(orderItems[o]) = 1

NextLease ==
  \/ \E p \in Procs : Start(p, OrderDemands(p))
  \/ \E p \in Procs : Acquire(p)
  \/ \E p \in Procs : AcquireTimeout(p)
  \/ \E p \in Procs : CheckRow(p)
  \/ \E p \in Procs, ttl \in TTLs :
       \E faultAt \in 0..(Len(call[p].demands) + 1) : Write(p, ttl, faultAt)
  \/ \E p \in Procs : Except(p)
  \/ \E p \in Procs : Finally(p)
  \/ \E o \in Orders : LeaseConfirm(o)
  \/ \E o \in Orders : LeaseFulfill(o)
  \/ \E pr \in Products, newQuantity \in 0..MaxStock : LeaseAdjust(pr, newQuantity)

SpecLease == InitLease /\ [][NextLease]_vars

CountersChange(pr) ==
  \/ stock'[pr] # stock[pr]
  \/ reserved'[pr] # reserved[pr]
  \/ allocated'[pr] # allocated[pr]

\* C12: whenever reserve, confirm, fulfill or adjust changes a counter of a
\* product, the product's lease is held, and by the caller making the change.
C12_MutationUnderLease ==
  [][\A pr \in Products :
       CountersChange(pr) =>
         /\ lease[pr] # Null
         /\ pc'[lease[pr]] # pc[lease[pr]]]_vars

\* ------------------------------------------------- Order (orders/models.py)
CanBeCancelled(row) ==
  row.status \in {"draft", "reserved", "pending", "confirmed"}

\* faulty variant: an order is confirmed from any status
CanBeConfirmedAlways(row) == TRUE

CanBeConfirmed(row) == row.status \in {"reserved", "pending"}

\* what an Order method leaves: the store, the Order rows, its return value
OrderResult(d, rows, ok) == [d |-> d, rows |-> rows, ok |-> ok]

\* Order.reserve_stock
OrderReserveStock(d, rows, o, exp, faultAt) ==
  IF rows[o].status # "draft" THEN OrderResult(d, rows, FALSE)
  ELSE LET r == ReserveStockForOrder(d, orderItems[o], o, exp, faultAt)
       IN IF r.ret.ok /\ r.ret.n > 0
          THEN OrderResult(r.d,
                 [rows EXCEPT ![o] = [status |-> "reserved",
                                      is_reservation_active |-> TRUE]],
                 TRUE)
          ELSE IF r.ret.ok THEN OrderResult(r.d, rows, FALSE)
          ELSE OrderResult(r.d, [rows EXCEPT ![o].status = "failed"], FALSE)

\* faulty variant: a failed dispatch undoes the confirmation
OrderConfirmOrderUndone(d, rows, o, dispatchFails) ==
  LET r == ConfirmOrderReservations(d, o)
  IN IF CanBeConfirmed(rows[o]) /\ r.ret.ok /\ ~dispatchFails
     THEN OrderResult(r.d,
            [rows EXCEPT ![o] = [status |-> "confirmed",
                                 is_reservation_active |-> FALSE]],
            TRUE)
     ELSE OrderResult(d, rows, FALSE)

\* Order.confirm_order; dispatchFails: send_order_notification.delay raises
OrderConfirmOrder(d, rows, o, dispatchFails) ==
  IF ~CanBeConfirmed(rows[o]) THEN OrderResult(d, rows, FALSE)
  ELSE LET r == ConfirmOrderReservations(d, o)
       IN IF r.ret.ok
          THEN OrderResult(r.d,
                 [rows EXCEPT ![o] = [status |-> "confirmed",
                                      is_reservation_active |-> FALSE]],
                 ~dispatchFails)
          ELSE OrderResult(r.d, rows, FALSE)

\* Order.cancel_order
OrderCancelOrder(d, rows, o) ==
  IF ~CanBeCancelled(rows[o]) THEN OrderResult(d, rows, FALSE)
  ELSE LET r == IF rows[o].is_reservation_active
                THEN CancelOrderReservations(d, o).d ELSE d
       IN OrderResult(r,
            [rows EXCEPT ![o] = [status |-> "cancelled",
                                 is_reservation_active |-> FALSE]],
            TRUE)

OrderCommit(r) ==
  /\ Len(r.d.reservations) <= MaxRes
  /\ Len(r.d.movements) <= MaxMov
  /\ Install(r.d)
  /\ orderRow' = r.rows
  /\ UNCHANGED <<track, orderItems, now, concvars>>

OrderReserve(o, ttl) ==
  OrderCommit(OrderReserveStock(DB, orderRow, o, now + ttl, 0))

OrderConfirm(o, dispatchFails) ==
  OrderCommit(OrderConfirmOrder(DB, orderRow, o, dispatchFails))

OrderCancel(o) == OrderCommit(OrderCancelOrder(DB, orderRow, o))

OrderSweep ==
  /\ Len(CleanupExpiredReservations(DB, now).d.movements) <= MaxMov
  /\ Install(CleanupExpiredReservations(DB, now).d)
  /\ UNCHANGED <<track, orderItems, orderRow, now, concvars>>

OrderTick ==
  /\ now < MaxTime
  /\ now' = now + 1
  /\ UNCHANGED <<track, dbvars, orderItems, orderRow, concvars>>

NextOrder ==
  \/ \E o \in Orders, ttl \in TTLs : OrderReserve(o, ttl)
  \/ \E o \in Orders, dispatchFails \in BOOLEAN : OrderConfirm(o, dispatchFails)
  \/ \E o \in Orders : OrderCancel(o)
  \/ OrderSweep
  \/ OrderTick

SpecOrder == Init /\ [][NextOrder]_vars

\* order o was reserved and the sweep has released its reservations
ReleasedByExpiry(o) ==
  /\ orderRow[o].status = "reserved"
  /\ ActiveOf(o) = {}
  /\ \E k \in 1..Len(movements) :
       /\ movements[k].movement_type = "RELEASE"
       /\ movements[k].reason = "expired"
       /\ movements[k].reference_id = o

\* C13: confirming an order whose reservations were released by expiry is
\* an error: confirm_order_reservations does not report success and
\* Order.confirm_order does not move the order to confirmed.
C13_ConfirmAfterExpiryFails ==
  \A o \in Orders :
    ReleasedByExpiry(o) =>
      /\ ~ConfirmOrderReservations(DB, o).ret.ok
      /\ \A dispatchFails \in BOOLEAN :
           OrderConfirmOrder(DB, orderRow, o, dispatchFails).rows[o].status
             # "confirmed"

\* the lines of order o whose product has less allocated than the line asks
ShortLines(o) ==
  {k \in 1..Len(orderItems[o]) :
     allocated[orderItems[o][k].product_id] < orderItems[o][k].quantity}

NonNegative(d) ==
  \A pr \in Products :
    d.stock[pr] >= 0 /\ d.reserved[pr] >= 0 /\ d.allocated[pr] >= 0

\* C15: stock_quantity, reserved_quantity and allocated_quantity of every
\* product are non-negative in every reachable state, and stay so after
\* any release_reservation, deallocate_stock, release, cancel, sweep,
\* fulfill or adjust applied to it.
C15_NonNegative ==
  /\ NonNegative(DB)
  /\ \A pr \in Products, q \in Qty :
       /\ NonNegative(ReleaseReservation(DB, pr, q).d)
       /\ NonNegative(DeallocateStock(DB, pr, q).d)
  /\ \A i \in 1..Len(reservations) : NonNegative(Release(DB, i, TRUE).d)
  /\ \A o \in Orders :
       /\ NonNegative(CancelOrderReservations(DB, o).d)
       /\ NonNegative(FulfillOrder(DB, orderItems[o], o).d)
  /\ NonNegative(CleanupExpiredReservations(DB, now).d)
  /\ \A pr \in Products, newQuantity \in -1..MaxStock :
       NonNegative(AdjustStockTo(DB, pr, newQuantity).d)

\* an active reservation of a tracked product larger than what is left in
\* reserved_quantity: releasing it is refused by the store
C15_Witness ==
  \E i \in 1..Len(reservations) :
    /\ reservations[i].is_active
    /\ track[reservations[i].product]
    /\ reserved[reservations[i].product] < reservations[i].quantity
    /\ Release(DB, i, TRUE).raised

RECURSIVE ExpiredQuantity(_, _, _, _)
\* total quantity of the rows 1..i of rs that are reservations of pr, active
\* and expired at t
ExpiredQuantity(rs, pr, t, i) ==
  IF i = 0 THEN 0
  ELSE ExpiredQuantity(rs, pr, t, i - 1)
       + (IF rs[i].product = pr /\ Expired(rs[i], t) THEN rs[i].quantity ELSE 0)

\* C16: cleanup_expired_reservations releases exactly the reservations that
\* are active with expires_at earlier than now: each becomes inactive, its
\* quantity leaves reserved_quantity, one RELEASE movement with reason
\* "expired" is logged for it, and no other reservation is touched.
C16_SweepExact ==
  LET r == CleanupExpiredReservations(DB, now)
      E == {i \in 1..Len(reservations) : Expired(reservations[i], now)}
  IN /\ Len(r.d.reservations) = Len(reservations)
     /\ \A i \in E : ~r.d.reservations[i].is_active
     /\ \A i \in (1..Len(reservations)) \ E :
          r.d.reservations[i] = reservations[i]
     /\ \A pr \in Tracked :
          r.d.reserved[pr] =
            reserved[pr] - ExpiredQuantity(reservations, pr, now,
                                           Len(reservations))
     /\ Len(r.d.movements) = Len(movements) + Cardinality(E)
     /\ \A k \in (Len(movements) + 1)..Len(r.d.movements) :
          /\ r.d.movements[k].movement_type = "RELEASE"
          /\ r.d.movements[k].reason = "expired"
     /\ r.ret.n = Cardinality(E)

\* C17: adjust_stock(product, new_quantity) sets stock_quantity to
\* new_quantity, logs exactly one ADJUSTMENT movement with quantity =
\* new_quantity - old stock_quantity and stock_after = new_quantity, and
\* leaves reserved_quantity and allocated_quantity as they were.
C17_AdjustFrame ==
  \A pr \in Products, newQuantity \in 0..MaxStock :
    LET r == AdjustStockTo(DB, pr, newQuantity)
        m == r.d.movements[Len(r.d.movements)]
    IN /\ r.ret.ok
       /\ r.d.stock = [stock EXCEPT ![pr] = newQuantity]
       /\ r.d.reserved = reserved
       /\ r.d.allocated = allocated
       /\ r.d.reservations = reservations
       /\ Len(r.d.movements) = Len(movements) + 1
       /\ SubSeq(r.d.movements, 1, Len(movements)) = movements
       /\ m.product = pr
       /\ m.movement_type = "ADJUSTMENT"
       /\ m.quantity = newQuantity - stock[pr]
       /\ m.stock_after = newQuantity
       /\ m.reserved_after = reserved[pr]
       /\ m.allocated_after = allocated[pr]

\* the stock of a product with an outstanding hold was adjusted upwards
C17_Witness ==
  /\ movements # <<>>
  /\ LET m == movements[Len(movements)]
     IN /\ m.movement_type = "ADJUSTMENT"
        /\ m.quantity > 0
        /\ m.stock_after = stock[m.product]
        /\ reserved[m.product] > 0

\* C18: reserve_stock_for_order called with an empty demand list signals
\* failure; it does not return a successful (empty) result.
C18_EmptyRejected ==
  \A p \in Procs :
    pc[p] = "done" /\ call[p].demands = <<>> => call[p].outcome # "ok"

\* C19: a failure of the notification dispatch of Order.confirm_order
\* changes nothing in the inventory or the order: the order is confirmed and
\* the counters are exactly what confirm_order_reservations left.
C19_DispatchDecoupled ==
  \A o \in Orders :
    LET failed == OrderConfirmOrder(DB, orderRow, o, TRUE)
        sent == OrderConfirmOrder(DB, orderRow, o, FALSE)
        c == ConfirmOrderReservations(DB, o)
    IN /\ failed.d = sent.d
       /\ failed.rows = sent.rows
       /\ CanBeConfirmed(orderRow[o]) /\ c.ret.ok =>
            /\ failed.rows[o].status = "confirmed"
            /\ failed.d = c.d

\* a reserved order was confirmed and its hold became an allocation
C19_Witness ==
  \E o \in Orders, k \in 1..Len(movements) :
    /\ orderRow[o].status = "confirmed"
    /\ movements[k].movement_type = "ALLOCATE"
    /\ movements[k].reference_id = o
    /\ allocated[movements[k].product] > 0

Counters(d) == <<d.stock, d.reserved, d.allocated>>

\* the active reservations of order o are all on products not tracked
UntrackedOrder(o) ==
  \A i \in ActiveOf(o) : ~track[reservations[i].product]

\* C20: for a product with track_inventory false, can_reserve,
\* reserve_stock, release_reservation, allocate_stock and deallocate_stock
\* succeed for any quantity, as do the engine's reserve, confirm and cancel
\* on it, and none changes stock_quantity, reserved_quantity or
\* allocated_quantity.
C20_UntrackedNoOp ==
  /\ \A pr \in Products \ Tracked, q \in Qty :
       /\ CanReserve(DB, pr, q)
       /\ ReserveStock(DB, pr, q).ok
       /\ Counters(ReserveStock(DB, pr, q).d) = Counters(DB)
       /\ ~ReleaseReservation(DB, pr, q).raised
       /\ Counters(ReleaseReservation(DB, pr, q).d) = Counters(DB)
       /\ AllocateStock(DB, pr, q).ok
       /\ Counters(AllocateStock(DB, pr, q).d) = Counters(DB)
       /\ ~DeallocateStock(DB, pr, q).raised
       /\ Counters(DeallocateStock(DB, pr, q).d) = Counters(DB)
       /\ \A o \in Orders :
            LET r == ReserveStockForOrder(
                       DB, <<[product_id |-> pr, quantity |-> q]>>, o,
                       now + 1, 0)
            IN r.ret.ok /\ r.ret.n = 1 /\ Counters(r.d) = Counters(DB)
  /\ \A o \in Orders :
       UntrackedOrder(o) =>
         /\ ConfirmOrderReservations(DB, o).ret.ok
         /\ Counters(ConfirmOrderReservations(DB, o).d) = Counters(DB)
         /\ CancelOrderReservations(DB, o).ret.ok
         /\ Counters(CancelOrderReservations(DB, o).d) = Counters(DB)

\* an order holds a reservation on an untracked product that has no stock
C20_Witness ==
  \E o \in Orders, i \in 1..Len(reservations) :
    /\ i \in ActiveOf(o)
    /\ ~track[reservations[i].product]
    /\ stock[reservations[i].product] < reservations[i].quantity
    /\ UntrackedOrder(o)

\* ----------------------------------------------- claims C21 .. C30
\* Orders as the Order model and the admin allow them: an Order row exists
\* before, or without, its OrderItem rows.
OrderLinesOrNone ==
  {s \in LineLists : \A i \in 1..Len(s) : s[i].quantity <= MaxLineQty}

InitDraft ==
  /\ track \in [Products -> BOOLEAN]
  /\ stock \in [Products -> 0..MaxStock]
  /\ reserved = [p \in Products |-> 0]
  /\ allocated = [p \in Products |-> 0]
  /\ reservations = <<>>
  /\ movements = <<>>
  /\ orderItems \in [Orders -> OrderLinesOrNone]
  /\ orderRow = [o \in Orders |-> Draft]
  /\ now = 0
  /\ lease = [p \in Products |-> Null]
  /\ rowLock = [p \in Products |-> Null]
  /\ pc = [p \in Procs |-> "idle"]
  /\ call = [p \in Procs |-> Idle]
  /\ sweep = NoSweep
  /\ recount = NoRecount

SpecDraft == InitDraft /\ [][NextOrder]_vars

\* C21: Order.reserve_stock on a draft order always leaves the draft state:
\* status reserved with is_reservation_active when the engine reservation
\* succeeds, failed on any reserve failure; on a non-draft order it changes
\* nothing.
C21_LeavesDraft ==
  \A o \in Orders :
    LET r == OrderReserveStock(DB, orderRow, o, now + 1, 0)
        e == ReserveStockForOrder(DB, orderItems[o], o, now + 1, 0)
    IN IF orderRow[o].status = "draft"
       THEN /\ r.rows[o].status \in {"reserved", "failed"}
            /\ e.ret.ok => /\ r.rows[o].status = "reserved"
                           /\ r.rows[o].is_reservation_active
            /\ ~e.ret.ok => r.rows[o].status = "failed"
       ELSE r.rows = orderRow /\ r.d = DB

\* C22: is_in_stock is true exactly when max(0, stock - reserved -
\* allocated) is above zero; a product with stock_quantity 0 is never in
\* stock and one with positive stock and no holds is.
C22_InStock ==
  \A pr \in Products :
    /\ IsInStock(DB, pr) <=> (stock[pr] - reserved[pr] - allocated[pr] > 0)
    /\ stock[pr] = 0 => ~IsInStock(DB, pr)
    /\ stock[pr] > 0 /\ reserved[pr] = 0 /\ allocated[pr] = 0 =>
         IsInStock(DB, pr)

\* a product whose holds exceed its stock (the max(0, ...) case)
C22_Witness ==
  \E pr \in Products :
    /\ reserved[pr] > 0
    /\ stock[pr] - reserved[pr] - allocated[pr] < 0
    /\ ~IsInStock(DB, pr)

\* C23: a call acquires one lease per distinct product id: with a product
\* id named twice in its demand list it never waits in lock.acquire for a
\* lease that it holds itself.
C23_NoSelfWait ==
  \A p \in Procs : ~WaitsFor(p, p)

\* a demand list of two different products, neither of which can be reserved
BothFail(items) ==
  /\ Len(items) = 2
  /\ items[1].product_id # items[2].product_id
  /\ ~CanReserve(DB, items[1].product_id, items[1].quantity)
  /\ ~CanReserve(DB, items[2].product_id, items[2].quantity)

\* C24: when several demands of one call cannot be satisfied, the
\* InsufficientStock failure is raised for the failing product with the
\* smallest id, with its available quantity and the quantity requested of
\* it, whatever order the caller listed the demands in.
C24_FirstFailingNamed ==
  \A o \in Orders, items \in DemandLists :
    BothFail(items) =>
      LET r == ReserveStockForOrder(DB, items, o, now + 1, 0)
          rev == ReserveStockForOrder(DB, <<items[2], items[1]>>, o,
                                      now + 1, 0)
          k == IF items[1].product_id < items[2].product_id THEN 1 ELSE 2
          m == items[k].product_id
      IN /\ r.ret.outcome = "insufficient"
         /\ r.ret.product = m
         /\ r.ret.available = Max(0, stock[m] - reserved[m] - allocated[m])
         /\ SortedItems(items)[FirstFailing(DB, SortedItems(items))] = items[k]
         /\ rev.ret = r.ret
         /\ r.d = DB /\ rev.d = DB

\* two tracked products, both short of a demand, with different amounts
\* left, the one with the larger id listed first
C24_Witness ==
  \E items \in DemandLists :
    /\ BothFail(items)
    /\ items[1].product_id > items[2].product_id
    /\ track[items[1].product_id] /\ track[items[2].product_id]
    /\ AvailableQuantity(DB, items[1].product_id)
         # AvailableQuantity(DB, items[2].product_id)
    /\ reserved[items[2].product_id] > 0

RECURSIVE HeldBy(_, _, _, _)
\* total quantity of the active reservations of order o on product pr among
\* rows 1..i of rs
HeldBy(rs, o, pr, i) ==
  IF i = 0 THEN 0
  ELSE HeldBy(rs, o, pr, i - 1)
       + (IF rs[i].order_id = o /\ rs[i].product = pr /\ rs[i].is_active
          THEN rs[i].quantity ELSE 0)

\* C25: a successful confirm_order_reservations moves, for each active
\* reservation of the order, its quantity from reserved_quantity to
\* allocated_quantity (of a tracked product; the counters of an untracked
\* product stay as they are), deactivates it and logs one ALLOCATE
\* movement; stock_quantity and reserved + allocated of every product are
\* unchanged and the reservations of other orders are untouched.
C25_ConfirmFrame ==
  \A o \in Orders :
    LET c == ConfirmOrderReservations(DB, o)
        A == ActiveOf(o)
    IN c.ret.ok =>
         /\ \A pr \in Products :
              LET h == IF track[pr]
                       THEN HeldBy(reservations, o, pr, Len(reservations))
                       ELSE 0
              IN /\ c.d.stock[pr] = stock[pr]
                 /\ c.d.reserved[pr] = reserved[pr] - h
                 /\ c.d.allocated[pr] = allocated[pr] + h
         /\ Len(c.d.reservations) = Len(reservations)
         /\ \A i \in 1..Len(reservations) :
              IF i \in A
              THEN c.d.reservations[i] =
                     [reservations[i] EXCEPT !.is_active = FALSE]
              ELSE c.d.reservations[i] = reservations[i]
         /\ Len(c.d.movements) = Len(movements) + Cardinality(A)
         /\ SubSeq(c.d.movements, 1, Len(movements)) = movements
         /\ \A k \in (Len(movements) + 1)..Len(c.d.movements) :
              /\ c.d.movements[k].movement_type = "ALLOCATE"
              /\ c.d.movements[k].reference_id = o
              /\ \E i \in A :
                   /\ c.d.movements[k].product = reservations[i].product
                   /\ c.d.movements[k].quantity = reservations[i].quantity

\* two orders hold reservations on one tracked product and the first can
\* be confirmed
C25_Witness ==
  \E o, other \in Orders, i, j \in 1..Len(reservations) :
    /\ o # other
    /\ i \in ActiveOf(o) /\ j \in ActiveOf(other)
    /\ reservations[i].product = reservations[j].product
    /\ track[reservations[i].product]
    /\ ConfirmOrderReservations(DB, o).ret.ok
    /\ ConfirmOrderReservations(DB, o).d.allocated[reservations[i].product] > 0

\* order 1 has a line on each product, order 2 one line on product 1;
\* reserve calls may fail in the store, confirm runs beside them
InitAbort ==
  /\ Init
  /\ \A pr \in Products : track[pr] /\ stock[pr] = MaxStock
  /\ orderItems[1] = <<[product_id |-> 1, quantity |-> 1],
                       [product_id |-> 2, quantity |-> 1]>>
  /\ orderItems[2] = <<[product_id |-> 1, quantity |-> 1]>>

SpecAbort == InitAbort /\ [][NextLease]_vars

\* an active reservation of order o that reserved_quantity no longer covers
Uncovered(o) ==
  {i \in ActiveOf(o) :
     /\ track[reservations[i].product]
     /\ reserved[reservations[i].product] < reservations[i].quantity}

\* C26: when allocation fails for a reservation of the order (its product's
\* reserved_quantity is below its quantity), confirm_order_reservations
\* reports failure and leaves every counter, every reservation and the
\* movement log as they were, also for the reservations it processed
\* before the failing one.
C26_ConfirmAllOrNothing ==
  \A o \in Orders :
    Uncovered(o) # {} =>
      /\ ~ConfirmOrderReservations(DB, o).ret.ok
      /\ ConfirmOrderReservations(DB, o).d = DB

\* the order's newer reservation can be allocated, its older one cannot:
\* the loop (newest first) allocates one before it fails on the other
C26_Witness ==
  \E o \in Orders, i, j \in 1..Len(reservations) :
    /\ i < j
    /\ i \in Uncovered(o)
    /\ j \in ActiveOf(o) \ Uncovered(o)
    /\ track[reservations[j].product]
    /\ reservations[i].product # reservations[j].product

\* no ALLOCATE movement was logged for order o: it was never confirmed
NeverAllocated(o) ==
  \A k \in 1..Len(movements) :
    ~(movements[k].movement_type = "ALLOCATE" /\ movements[k].reference_id = o)

\* C27: fulfill_order takes stock only for quantities allocated by
\* confirming the same order: fulfilling an order that was never confirmed
\* (lines on tracked products) changes no stock_quantity and consumes no
\* allocation, so no OUT movement exists without an earlier ALLOCATE of
\* the order.
C27_FulfillFollowsAllocation ==
  \A o \in Orders :
    /\ NeverAllocated(o)
    /\ \A k \in 1..Len(orderItems[o]) : track[orderItems[o][k].product_id]
    => LET f == FulfillOrder(DB, orderItems[o], o)
       IN /\ f.d.stock = stock
          /\ f.d.allocated = allocated
          /\ f.d.movements = movements

\* ------------------------------ the sweep over stores with failing rows
\* one pass of the loop body of cleanup_expired_reservations on row i of
\* the queryset q0, in its own transaction.atomic(): release(), then
\* expired_count += 1, then _log_stock_movement.  logFails: the store
\* raises while the movement is written; the transaction is rolled back
\* and the per-row except swallows the error.
CleanupRow(d, q0, i, logFails) ==
  LET r == Release(d, i, q0[i].is_active)
  IN IF r.raised THEN [d |-> d, counted |-> 0, failed |-> TRUE]
     ELSE IF logFails THEN [d |-> d, counted |-> 1, failed |-> TRUE]
     ELSE [d |-> LogStockMovement(r.d, q0[i].product, "RELEASE",
                                  q0[i].quantity, "expired", q0[i].order_id),
           counted |-> 1, failed |-> FALSE]

RECURSIVE CleanupRowsAborting(_, _, _, _, _)
\* faulty variant: the first failing row ends the sweep
CleanupRowsAborting(d, q0, t, i, faults) ==
  IF i = 0 THEN [d |-> d, count |-> 0]
  ELSE IF Expired(q0[i], t)
       THEN LET c == CleanupRow(d, q0, i, i \in faults)
                rest == IF c.failed THEN [d |-> c.d, count |-> 0]
                        ELSE CleanupRowsAborting(c.d, q0, t, i - 1, faults)
            IN [d |-> rest.d, count |-> rest.count + c.counted]
       ELSE CleanupRowsAborting(d, q0, t, i - 1, faults)

RECURSIVE CleanupRows(_, _, _, _, _)
\* for reservation in expired_reservations: try ... except Exception
CleanupRows(d, q0, t, i, faults) ==
  IF i = 0 THEN [d |-> d, count |-> 0]
  ELSE IF Expired(q0[i], t)
       THEN LET c == CleanupRow(d, q0, i, i \in faults)
                rest == CleanupRows(c.d, q0, t, i - 1, faults)
            IN [d |-> rest.d, count |-> rest.count + c.counted]
       ELSE CleanupRows(d, q0, t, i - 1, faults)

\* cleanup_expired_reservations at time t; faults: the rows whose movement
\* cannot be written
CleanupExpiredWithFaults(d, t, faults) ==
  LET r == CleanupRows(d, d.reservations, t, Len(d.reservations), faults)
  IN Result(r.d, "cleanup", Null, Null, TRUE, "ok", 0, r.count)

ExpiredRows == {i \in 1..Len(reservations) : Expired(reservations[i], now)}

\* an engine call run to its end, on a store that earlier faults may have
\* left with reserved_quantity below the active reservations
Whole(r) ==
  /\ r.d # DB
  /\ Len(r.d.reservations) <= MaxRes
  /\ Len(r.d.movements) <= MaxSweepMov
  /\ Install(r.d)
  /\ UNCHANGED <<track, orderItems, orderRow, now, concvars>>

ExpiryReserve(o, ttl, faultAt) ==
  Whole(ReserveStockForOrder(DB, OrderDemands(o), o, now + ttl, faultAt))

ExpiryConfirm(o) == Whole(ConfirmOrderReservations(DB, o))

ExpiryCleanup(faults) == Whole(CleanupExpiredWithFaults(DB, now, faults))

InitExpiry ==
  /\ Init
  /\ \A pr \in Products : track[pr] /\ stock[pr] = MaxStock

NextExpiry ==
  \/ \E o \in Orders, ttl \in TTLs :
       \E faultAt \in 0..(Len(orderItems[o]) + 1) : ExpiryReserve(o, ttl, faultAt)
  \/ \E o \in Orders : ExpiryConfirm(o)
  \/ \E faults \in SUBSET ExpiredRows : ExpiryCleanup(faults)
  \/ Tick

SpecExpiry == InitExpiry /\ [][NextExpiry]_vars

RECURSIVE SweptQuantity(_, _, _, _)
\* total quantity of the rows of pr that are active in rs0 and not in rs1
SweptQuantity(rs0, rs1, pr, i) ==
  IF i = 0 THEN 0
  ELSE SweptQuantity(rs0, rs1, pr, i - 1)
       + (IF rs0[i].product = pr /\ rs0[i].is_active /\ ~rs1[i].is_active
          THEN rs0[i].quantity ELSE 0)

\* C28: a row of the sweep that fails (its release raises because
\* reserved_quantity does not cover it, or its movement cannot be written)
\* is left as it was, and every other expired active reservation is still
\* released: the counters lose exactly the quantities of the released rows.
C28_SweepContinues ==
  \A faults \in SUBSET ExpiredRows :
    LET c == CleanupExpiredWithFaults(DB, now, faults).d
    IN /\ Len(c.reservations) = Len(reservations)
       /\ \A i \in 1..Len(reservations) :
            IF i \in ExpiredRows
            THEN \/ /\ ~c.reservations[i].is_active
                    /\ i \notin faults
                 \/ /\ c.reservations[i] = reservations[i]
                    /\ \/ i \in faults
                       \/ c.reserved[reservations[i].product]
                            < reservations[i].quantity
            ELSE c.reservations[i] = reservations[i]
       /\ \A pr \in Products :
            /\ c.reserved[pr] = reserved[pr]
                 - SweptQuantity(reservations, c.reservations, pr,
                                 Len(reservations))
            /\ c.stock[pr] = stock[pr]
            /\ c.allocated[pr] = allocated[pr]

\* the sweep meets a row whose release raises, then releases an older one
C28_Witness ==
  \E i, j \in ExpiredRows :
    LET c == CleanupExpiredWithFaults(DB, now, {}).d
    IN /\ i < j
       /\ c.reservations[j].is_active
       /\ ~c.reservations[i].is_active

\* C29: the count returned by cleanup_expired_reservations is the number of
\* reservations the sweep left released (active before, inactive after).
C29_CountIsCommitted ==
  \A faults \in SUBSET ExpiredRows :
    LET c == CleanupExpiredWithFaults(DB, now, faults)
    IN c.ret.n = Cardinality({i \in ExpiredRows :
                                ~c.d.reservations[i].is_active})

\* the movements a step appends for product pr
Appended(pr) ==
  {k \in (Len(movements) + 1)..Len(movements') : movements'[k].product = pr}

\* C30: an engine operation that changes a counter of a product appends
\* exactly one movement for it, whose stock_after, reserved_after and
\* allocated_after are the product's counters after the change; it appends
\* no movement for a product whose counters it leaves alone.
C30_OneMovementPerMutation ==
  [][\A pr \in Products :
       IF CountersChange(pr)
       THEN /\ Cardinality(Appended(pr)) = 1
            /\ \A k \in Appended(pr) :
                 /\ movements'[k].stock_after = stock'[pr]
                 /\ movements'[k].reserved_after = reserved'[pr]
                 /\ movements'[k].allocated_after = allocated'[pr]
       ELSE Appended(pr) = {}]_vars

\* ----------------------------------------------- claims C31 .. C39
\* values of expiration_minutes (reserve) and additional_minutes (extend)
ExpirationMinutes == {1, 2}
AdditionalMinutes == {1, 2}

\* StockReservation.extend_expiration at time t
ExtendExpiration(r, t, minutes) == [r EXCEPT !.expires_at = t + minutes]

\* extend_reservation: every active reservation of the order is extended
ExtendReservation(d, o, t, minutes) ==
  Result([d EXCEPT !.reservations =
            [i \in 1..Len(d.reservations) |->
               IF d.reservations[i].order_id = o /\ d.reservations[i].is_active
               THEN ExtendExpiration(d.reservations[i], t, minutes)
               ELSE d.reservations[i]]],
         "extend", o, Null, TRUE, "ok", 0, 0)

ExtendReserve(o, minutes) ==
  Whole(ReserveStockForOrder(DB, OrderDemands(o), o, now + minutes, 0))

Extend(o, minutes) == Whole(ExtendReservation(DB, o, now, minutes))

ExtendCleanup == Whole(CleanupExpiredReservations(DB, now))

InitExtend ==
  /\ Init
  /\ \A pr \in Products : track[pr] /\ stock[pr] = MaxStock
  /\ \A o \in Orders : Len(orderItems[o]) = 1

NextExtend ==
  \/ \E o \in Orders, minutes \in ExpirationMinutes : ExtendReserve(o, minutes)
  \/ \E o \in Orders, minutes \in AdditionalMinutes : Extend(o, minutes)
  \/ ExtendCleanup
  \/ Tick

SpecExtend == InitExtend /\ [][NextExtend]_vars

\* C31: no step moves the expires_at of a reservation to an earlier time,
\* and no step modifies an inactive reservation.
C31_ExtendOnlyForward ==
  [][\A i \in 1..Len(reservations) :
       /\ reservations'[i].expires_at >= reservations[i].expires_at
       /\ ~reservations[i].is_active => reservations'[i] = reservations[i]]_vars

\* C32: once the sweep has released the reservations of an order that is
\* still reserved, the order's is_reservation_active is false (its status
\* is still reserved).
C32_SweepClearsFlag ==
  \A o \in Orders :
    ReleasedByExpiry(o) =>
      /\ orderRow[o].status = "reserved"
      /\ ~orderRow[o].is_reservation_active

\* Order.STATUS_CHOICES
Statuses == {"draft", "reserved", "pending", "confirmed", "processing",
             "shipped", "delivered", "cancelled", "failed"}

\* orders as the admin site can leave them: any status, either flag
InitStatus ==
  /\ track = [pr \in Products |-> TRUE]
  /\ stock = [pr \in Products |-> MaxStock]
  /\ reserved = [pr \in Products |-> 0]
  /\ allocated = [pr \in Products |-> 0]
  /\ reservations = <<>>
  /\ movements = <<>>
  /\ orderItems \in [Orders -> {l \in OrderLines : Len(l) = 1}]
  /\ orderRow \in [Orders -> [status : Statuses, is_reservation_active : BOOLEAN]]
  /\ now = 0
  /\ lease = [p \in Products |-> Null]
  /\ rowLock = [p \in Products |-> Null]
  /\ pc = [p \in Procs |-> "idle"]
  /\ call = [p \in Procs |-> Idle]
  /\ sweep = NoSweep
  /\ recount = NoRecount

SpecStatus == InitStatus /\ [][NextOrder]_vars

\* the status of order o after each Order method, called on the stored row
AfterReserve(o) == OrderReserveStock(DB, orderRow, o, now + 1, 0).rows[o].status
AfterConfirm(o) == OrderConfirmOrder(DB, orderRow, o, FALSE).rows[o].status
AfterCancel(o) == OrderCancelOrder(DB, orderRow, o).rows[o].status

\* C33: each Order method changes the status along its own edges only:
\* reserve_stock from draft, confirm_order from reserved or pending to
\* confirmed, cancel_order from draft, reserved, pending or confirmed to
\* cancelled; cancelled, failed, processing, shipped and delivered orders
\* keep their status.
C33_StatusEdges ==
  \A o \in Orders :
    LET st == orderRow[o].status
    IN /\ AfterReserve(o) # st =>
            st = "draft" /\ AfterReserve(o) \in {"reserved", "failed"}
       /\ AfterConfirm(o) # st =>
            st \in {"reserved", "pending"} /\ AfterConfirm(o) = "confirmed"
       /\ AfterCancel(o) # st =>
            /\ st \in {"draft", "reserved", "pending", "confirmed"}
            /\ AfterCancel(o) = "cancelled"
       /\ st \in {"cancelled", "failed", "processing", "shipped", "delivered"} =>
            /\ OrderReserveStock(DB, orderRow, o, now + 1, 0).rows = orderRow
            /\ OrderConfirmOrder(DB, orderRow, o, FALSE).rows = orderRow
            /\ OrderCancelOrder(DB, orderRow, o).rows = orderRow

\* one order was reserved and confirmed by its methods while the other,
\* already shipped, was left alone
C33_Witness ==
  \E o, u \in Orders :
    /\ orderRow[o].status = "confirmed"
    /\ \E k \in 1..Len(movements) :
         movements[k].movement_type = "ALLOCATE" /\ movements[k].reference_id = o
    /\ orderRow[u].status = "shipped"

\* ------------------------ reserve calls with crashes and expiring leases
\* the worker running call p dies: its database session ends (the open
\* transaction is rolled back, its row locks are dropped); nothing releases
\* the leases it holds
Crash(p) ==
  /\ pc[p] \in {"acquire", "check", "write", "except", "finally"}
  /\ pc' = [pc EXCEPT ![p] = "crashed"]
  /\ rowLock' = RowLocksReleased(rowLock, p)
  /\ UNCHANGED <<track, dbvars, orderItems, orderRow, now, lease, call, sweep, recount>>

\* faulty variant: a lease lasts until its holder releases it
LeaseKept(pr) ==
  /\ FALSE
  /\ UNCHANGED vars

\* redis_lock.Lock(..., timeout=60): the lease ends 60 s after it was
\* taken, whether or not the call that took it is still running
LeaseExpire(pr) ==
  /\ lease[pr] # Null
  /\ lease' = [lease EXCEPT ![pr] = Null]
  /\ UNCHANGED <<track, dbvars, orderItems, orderRow, now, rowLock, pc, call, sweep, recount>>

\* the steps of call p
Step(p) ==
  \/ Acquire(p)
  \/ AcquireTimeout(p)
  \/ CheckRow(p)
  \/ \E ttl \in TTLs : \E faultAt \in 0..(Len(call[p].demands) + 1) :
       Write(p, ttl, faultAt)
  \/ Except(p)
  \/ Finally(p)

\* one unit of each product: two calls on a product compete for it
InitCrash ==
  /\ Init
  /\ \A pr \in Products : track[pr] /\ stock[pr] = 1
  /\ \A o \in Orders : Len(orderItems[o]) = 1

NextCrash ==
  \/ \E p \in Procs : Start(p, OrderDemands(p))
  \/ \E p \in Procs : Step(p)
  \/ \E p \in Procs : Crash(p)
  \/ \E pr \in Products : LeaseExpire(pr)

\* a running call goes on unless its worker dies; a lease runs out
SpecCrash ==
  /\ InitCrash
  /\ [][NextCrash]_vars
  /\ \A p \in Procs : WF_vars(Step(p))
  /\ \A pr \in Products : WF_vars(LeaseExpire(pr))

\* C34: every reserve_stock_for_order call that started ends (it returns,
\* or its worker died), and no lease stays taken forever: a lease whose
\* holder crashed is free again later.
C34_CallsEnd ==
  /\ \A p \in Procs : Started(p) ~> pc[p] \in {"done", "crashed"}
  /\ \A pr \in Products : (lease[pr] # Null) ~> (lease[pr] = Null)

\* the holder of a lease crashed, the lease ran out, and the other call
\* took it and returned
C34_Witness ==
  \E p, q \in Procs, pr \in Products :
    /\ p # q
    /\ pc[p] = "crashed" /\ pr \in call[p].held
    /\ pc[q] = "done" /\ pr \in call[q].held /\ call[q].outcome = "ok"

\* call p has passed its availability checks and not yet committed
InSection(p) == pc[p] = "write"

\* C36: with leases that may run out under a running call, the row locks
\* taken by the availability check are held until the call's transaction
\* ends, so no other call's check or increment on those products falls in
\* between: a call that passed its checks never finds the stock gone when
\* it writes, and reserved + allocated never exceeds stock.
C36_RowLockSuffices ==
  /\ \A pr \in Products :
       track[pr] => reserved[pr] + allocated[pr] <= stock[pr]
  /\ \A p \in Procs :
       /\ InSection(p) =>
            \A k \in 1..Len(call[p].demands) :
              rowLock[call[p].demands[k].product_id] = p
       /\ call[p].outcome = "insufficient" => call[p].product # Null

\* the lease of pr ran out under p, q took it and waits for p's row lock
C36_Witness ==
  \E p, q \in Procs, pr \in Products :
    /\ p # q
    /\ InSection(p) /\ pr \in call[p].held /\ rowLock[pr] = p
    /\ lease[pr] = q
    /\ pc[q] = "check" /\ Sorted(q)[call[q].i].product_id = pr

\* --------------------- update_inventory_counts beside the engine's calls
\* engine calls committed while one recount runs
MaxBesideOps == 1

\* update_inventory_counts run with nothing else in progress: for each
\* tracked product, reserved_quantity := total of its active reservations
\* when the two differ
UpdateInventoryCounts(d) ==
  [d EXCEPT !.reserved =
     [pr \in Products |->
        IF track[pr] THEN ActiveQuantity(d.reservations, pr, Len(d.reservations))
        ELSE d.reserved[pr]]]

\* an operation on the counters: a recount or an engine call for an order
Op(kind, o, exp) == [kind |-> kind, order |-> o, exp |-> exp]

ApplyOp(d, op) ==
  CASE op.kind = "reserve" ->
         ReserveStockForOrder(d, orderItems[op.order], op.order, op.exp, 0).d
    [] op.kind = "cancel" -> CancelOrderReservations(d, op.order).d
    [] op.kind = "confirm" -> ConfirmOrderReservations(d, op.order).d
    [] op.kind = "recount" -> UpdateInventoryCounts(d)

RECURSIVE Serial(_, _, _, _)
\* the store after the operations ops[f[k]], ..., ops[f[n]] run one by one
Serial(d, ops, f, k) ==
  IF k > Len(ops) THEN d
  ELSE Serial(ApplyOp(d, ops[f[k]]), ops, f, k + 1)

Orderings(n) ==
  {f \in [1..n -> 1..n] : \A a, b \in 1..n : a # b => f[a] # f[b]}

\* for product in products: the queryset is evaluated here, each product
\* with the reserved_quantity it has now
RecountLoad ==
  /\ recount.stage = "idle"
  /\ recount' = [stage |-> "aggregate", i |-> 1, mem |-> reserved, agg |-> 0,
                 start |-> DB, ops |-> <<>>]
  /\ UNCHANGED <<track, dbvars, orderItems, orderRow, now, lease, rowLock, pc,
                 call, sweep>>

\* actual_reserved = StockReservation.objects.filter(...).aggregate(Sum)
RecountAggregate ==
  /\ recount.stage = "aggregate"
  /\ recount' = [recount EXCEPT
                   !.agg = ActiveQuantity(reservations, recount.i, Len(reservations)),
                   !.stage = "save"]
  /\ UNCHANGED <<track, dbvars, orderItems, orderRow, now, lease, rowLock, pc,
                 call, sweep>>

\* if product.reserved_quantity != actual_reserved: save(update_fields)
RecountSave ==
  /\ recount.stage = "save"
  /\ reserved' = IF recount.mem[recount.i] # recount.agg
                 THEN [reserved EXCEPT ![recount.i] = recount.agg]
                 ELSE reserved
  /\ recount' = [recount EXCEPT
                   !.i = @ + 1,
                   !.stage = IF recount.i + 1 \in Products THEN "aggregate"
                             ELSE "done"]
  /\ UNCHANGED <<track, stock, allocated, reservations, movements, orderItems,
                 orderRow, now, lease, rowLock, pc, call, sweep>>

\* an engine call that commits before the recount starts, or while it runs
RecountBeside(op) ==
  /\ recount.stage \in {"idle", "aggregate", "save"}
  /\ recount.stage # "idle" => Len(recount.ops) < MaxBesideOps
  /\ ApplyOp(DB, op) # DB
  /\ Len(ApplyOp(DB, op).reservations) <= MaxRes
  /\ Len(ApplyOp(DB, op).movements) <= MaxSweepMov
  /\ Install(ApplyOp(DB, op))
  /\ recount' = IF recount.stage = "idle" THEN recount
                ELSE [recount EXCEPT !.ops = Append(@, op)]
  /\ UNCHANGED <<track, orderItems, orderRow, now, lease, rowLock, pc, call, sweep>>

InitRecount ==
  /\ Init
  /\ \A pr \in Products : track[pr] /\ stock[pr] = MaxStock
  /\ \A o \in Orders : Len(orderItems[o]) = 1

NextRecount ==
  \/ RecountLoad
  \/ RecountAggregate
  \/ RecountSave
  \/ \E o \in Orders, ttl \in TTLs : RecountBeside(Op("reserve", o, now + ttl))
  \/ \E o \in Orders : RecountBeside(Op("cancel", o, Null))
  \/ \E o \in Orders : RecountBeside(Op("confirm", o, Null))

SpecRecount == InitRecount /\ [][NextRecount]_vars

\* C35: when a recount that ran beside engine calls has finished, every
\* product's reserved_quantity is what some one-by-one order of the recount
\* and those calls leaves, started from the store the recount began on.
C35_NoLostUpdate ==
  recount.stage = "done" =>
    LET ops == Append(recount.ops, Op("recount", Null, Null))
    IN \E f \in Orderings(Len(ops)) :
         Serial(recount.start, ops, f, 1).reserved = reserved

\* --------------- confirm_order_reservations step by step beside reserve
\* the newest active reservation of order o among rows 1..i (the queryset
\* is ordered by -created_at), or 0
NextOf(o, i) ==
  LET A == {j \in 1..i : reservations[j].order_id = o /\ reservations[j].is_active}
  IN IF A = {} THEN 0 ELSE CHOOSE j \in A : \A k \in A : k <= j

\* call p is confirm_order_reservations(o): transaction.atomic() entered,
\* the queryset evaluated
ConfirmStart(p, o) ==
  /\ pc[p] = "idle"
  /\ NextOf(o, Len(reservations)) # 0
  /\ call' = [call EXCEPT ![p] = [Idle EXCEPT !.order = o,
                                              !.i = NextOf(o, Len(reservations))]]
  /\ pc' = [pc EXCEPT ![p] = "allocate"]
  /\ UNCHANGED <<track, dbvars, orderItems, orderRow, now, lease, rowLock, sweep,
                 recount>>

\* reservation.product.allocate_stock: select_for_update().get(id) takes
\* the product's row lock, kept until the outer transaction ends
ConfirmRow(p) ==
  /\ pc[p] = "allocate"
  /\ LET pr == reservations[call[p].i].product
         next == NextOf(call[p].order, call[p].i - 1)
     IN /\ rowLock[pr] \in {Null, p}
        /\ rowLock' = [rowLock EXCEPT ![pr] = p]
        /\ call' = [call EXCEPT ![p].i = next]
        /\ pc' = [pc EXCEPT ![p] = IF next = 0 THEN "commit" ELSE "allocate"]
  /\ UNCHANGED <<track, dbvars, orderItems, orderRow, now, lease, sweep, recount>>

\* the end of the transaction: its writes are installed, its locks dropped
ConfirmCommit(p) ==
  /\ pc[p] = "commit"
  /\ Install(ConfirmOrderReservations(DB, call[p].order).d)
  /\ rowLock' = RowLocksReleased(rowLock, p)
  /\ call' = [call EXCEPT ![p].outcome =
                IF ConfirmOrderReservations(DB, call[p].order).ret.ok
                THEN "ok" ELSE "error"]
  /\ pc' = [pc EXCEPT ![p] = "done"]
  /\ UNCHANGED <<track, orderItems, orderRow, now, lease, sweep, recount>>

\* a reserve call made while no other call is in progress
RowsReserve(o, ttl) ==
  /\ \A p \in Procs : pc[p] = "idle"
  /\ Whole(ReserveStockForOrder(DB, OrderDemands(o), o, now + ttl, 0))

\* both orders ask for one unit of each product
InitRows ==
  /\ Init
  /\ \A pr \in Products : track[pr] /\ stock[pr] = MaxStock
  /\ \A o \in Orders : orderItems[o] = <<[product_id |-> 1, quantity |-> 1],
                                         [product_id |-> 2, quantity |-> 1]>>

NextRows ==
  \/ \E o \in Orders, ttl \in TTLs : RowsReserve(o, ttl)
  \/ \E p \in Procs : Start(p, OrderDemands(p))
  \/ \E p \in Procs : Step(p)
  \/ \E p \in Procs, o \in Orders : ConfirmStart(p, o)
  \/ \E p \in Procs : ConfirmRow(p)
  \/ \E p \in Procs : ConfirmCommit(p)

SpecRows == InitRows /\ [][NextRows]_vars

\* the product whose row lock call p asks for next, or Null
RowWanted(p) ==
  IF pc[p] = "check" THEN Sorted(p)[call[p].i].product_id
  ELSE IF pc[p] = "allocate" THEN reservations[call[p].i].product
  ELSE Null

\* transaction p waits for a row lock that transaction q holds
RowWaits(p, q) == RowWanted(p) # Null /\ rowLock[RowWanted(p)] = q

\* C37: a reserve call and a confirm over the same products never wait for
\* each other's product row locks.
C37_NoRowDeadlock ==
  \A p, q \in Procs : p # q => ~(RowWaits(p, q) /\ RowWaits(q, p))

\* the ALLOCATE movements of order o on tracked products that no later OUT
\* movement of the order has taken out of allocated_quantity
AllocatedFor(o) ==
  {k \in 1..Len(movements) :
     /\ movements[k].movement_type = "ALLOCATE"
     /\ movements[k].reference_id = o
     /\ track[movements[k].product]
     /\ ~\E j \in (k + 1)..Len(movements) :
          /\ movements[j].movement_type = "OUT"
          /\ movements[j].reference_id = o
          /\ movements[j].product = movements[k].product}

\* C38: a cancelled order holds nothing: it has no active reservation and
\* no quantity allocated for it is still counted in allocated_quantity.
C38_CancelledHoldsNothing ==
  \A o \in Orders :
    orderRow[o].status = "cancelled" =>
      /\ ActiveOf(o) = {}
      /\ AllocatedFor(o) = {}

\* C39: Order.confirm_order returns True exactly when it moved the order to
\* confirmed; when it returns False the Order rows are as before and the
\* store is unchanged (no reservation became an allocation).
C39_ConfirmReturn ==
  \A o \in Orders, dispatchFails \in BOOLEAN :
    LET r == OrderConfirmOrder(DB, orderRow, o, dispatchFails)
        moved == /\ orderRow[o].status # "confirmed"
                 /\ r.rows[o].status = "confirmed"
    IN /\ r.ok <=> moved
       /\ ~r.ok => r.rows = orderRow /\ r.d = DB

====
